---- MODULE Spec2Model ----
(***************************************************************************)
(* The API configuration modules of MyERPAccountingSystem:                 *)
(*   src/frontend/src/config.js  and  src/unnamed/part_000                 *)
(*                                                                         *)
(*   2  export const API_URL = import.meta.env.VITE_API_URL || '<literal>';*)
(*   4  console.log('API URL:', API_URL);                                  *)
(*   6  export default API_URL;                                            *)
(*                                                                         *)
(* A JavaScript value is a record [type, str]; str is the text of a string *)
(* value and "" for the other types.  Each module is evaluated statement   *)
(* by statement (pc), run to completion, at most once; consumers read the  *)
(* exports of an evaluated module; the host may change the environment     *)
(* entry between runs of JavaScript code.                                  *)
(***************************************************************************)
EXTENDS Naturals, Sequences, FiniteSets, TLC

VARIABLES env, pc, override, API_URL, default, console, observed

vars == <<env, pc, override, API_URL, default, console, observed>>

(* ------------------------------ bounds -------------------------------- *)

\* longest override string built from Alphabet
MaxLen == 2

(* ------------------------------ values -------------------------------- *)

Frontend == "src/frontend/src/config.js"
Part000 == "src/unnamed/part_000"

Modules == {Frontend, Part000}

Undefined == [type |-> "undefined", str |-> ""]
Null == [type |-> "null", str |-> ""]
Str(s) == [type |-> "string", str |-> s]

\* a binding in its temporal dead zone: declared, not yet initialised
Uninitialized == [type |-> "uninitialized", str |-> ""]

Alphabet == {" ", "x"}

RECURSIVE StringsUpTo(_)
StringsUpTo(n) ==
    IF n = 0 THEN {""}
    ELSE LET shorter == StringsUpTo(n - 1)
         IN  shorter \cup {s \o c : s \in shorter, c \in Alphabet}

RECURSIVE BlankUpTo(_)
BlankUpTo(n) ==
    IF n = 0 THEN {""}
    ELSE LET shorter == BlankUpTo(n - 1)
         IN  shorter \cup {s \o " " : s \in shorter}

BackendLiteral == "https://my-erp-backend-theta.vercel.app"
FrontendLiteral == "https://my-erp-frontend-delta.vercel.app"

WellFormedUrls == {"https://staging.example.com", BackendLiteral, FrontendLiteral}

Malformed == {"not a url", " https://staging.example.com "}

OverrideStrings == StringsUpTo(MaxLen) \cup WellFormedUrls \cup Malformed

\* the values import.meta.env.VITE_API_URL can hold
OverrideValues == {Undefined, Null} \cup {Str(s) : s \in OverrideStrings}

(* ---------------------------- expressions ----------------------------- *)

\* variant: both files carry the same literal
FallbackShared(m) == BackendLiteral

\* the string literal to the right of || on line 2
Fallback(m) == IF m = Frontend THEN BackendLiteral ELSE FrontendLiteral

\* variant: a string of blanks counts as absent (the override is trimmed first)
ToBooleanTrimmed(v) == v.type = "string" /\ v.str \notin BlankUpTo(MaxLen + 1)

\* ToBoolean, as || applies it to its left operand
ToBoolean(v) == v.type = "string" /\ Len(v.str) > 0

\* variant: a ?? b
NullishCoalesce(a, b) == IF a.type \in {"undefined", "null"} THEN b ELSE a

\* a || b
LogicalOr(a, b) == IF ToBoolean(a) THEN a ELSE b

\* variant: the fallback operand is left out
InitializerOverrideOnly(o, fallback) == [kind |-> "normal", value |-> o]

\* variant: a present override that is no URL is rejected with a throw
InitializerValidating(o, fallback) ==
    IF ToBoolean(o) /\ o.str \notin WellFormedUrls
    THEN [kind |-> "throw", value |-> Uninitialized]
    ELSE [kind |-> "normal", value |-> LogicalOr(o, Str(fallback))]

\* the completion of the initializer of API_URL: normal with a value, or a throw
Initializer(o, fallback) == [kind |-> "normal", value |-> LogicalOr(o, Str(fallback))]

\* how console.log renders an argument after the first
Display(v) == IF v.type = "string" THEN v.str ELSE v.type

\* variant: the raw override is logged
LogArgsOverride(m) == <<Str("API URL:"), env>>

\* the arguments of console.log on line 4
LogArgs(m) == <<Str("API URL:"), API_URL[m]>>

\* console.log joins its arguments with one space
LogLine(args) == Display(args[1]) \o " " \o Display(args[2])

\* variant: the default export is the literal
DefaultExprFallback(m) == Str(Fallback(m))

\* the expression of export default on line 6
DefaultExpr(m) == API_URL[m]

\* variant: the named export is resolved again at each read
NamedExportLive(m) == LogicalOr(env, Str(Fallback(m)))

\* what an importer of the named export / of the default export reads
NamedExport(m) == API_URL[m]

DefaultExport(m) == default[m]

(* ------------------------------- state -------------------------------- *)

Kinds == {"named", "default"}

\* some module is in the middle of its evaluation
Busy == \E m \in Modules : pc[m] \in {"line4", "line6"}

Init ==
    /\ env \in OverrideValues
    /\ pc = [m \in Modules |-> "unloaded"]
    /\ override = [m \in Modules |-> Uninitialized]
    /\ API_URL = [m \in Modules |-> Uninitialized]
    /\ default = [m \in Modules |-> Uninitialized]
    /\ console = [m \in Modules |-> <<>>]
    /\ observed = [m \in Modules |-> [k \in Kinds |-> {}]]

(* ------------------------------ actions ------------------------------- *)

\* the host sets import.meta.env.VITE_API_URL
SetEnv(v) ==
    /\ ~Busy
    /\ env # v
    /\ env' = v
    /\ UNCHANGED <<pc, override, API_URL, default, console, observed>>

\* variant of line 2: import.meta.env.VITE_API_URL ||= '<literal>' writes the result back
ExportConstAssignEnv(m) ==
    /\ ~Busy
    /\ pc[m] = "unloaded"
    /\ LET c == Initializer(env, Fallback(m))
       IN  /\ override' = [override EXCEPT ![m] = env]
           /\ API_URL' = [API_URL EXCEPT ![m] = c.value]
           /\ env' = c.value
           /\ pc' = [pc EXCEPT ![m] = "line4"]
    /\ UNCHANGED <<default, console, observed>>

\* line 2: export const API_URL = import.meta.env.VITE_API_URL || '<literal>'
ExportConst(m) ==
    /\ ~Busy
    /\ pc[m] = "unloaded"
    /\ LET c == Initializer(env, Fallback(m))
       IN  /\ override' = [override EXCEPT ![m] = env]
           /\ IF c.kind = "throw"
              THEN /\ pc' = [pc EXCEPT ![m] = "errored"]
                   /\ UNCHANGED API_URL
              ELSE /\ pc' = [pc EXCEPT ![m] = "line4"]
                   /\ API_URL' = [API_URL EXCEPT ![m] = c.value]
    /\ UNCHANGED <<env, default, console, observed>>

\* line 4: console.log('API URL:', API_URL)
ConsoleLog(m) ==
    /\ pc[m] = "line4"
    /\ console' = [console EXCEPT ![m] = Append(@, LogLine(LogArgs(m)))]
    /\ pc' = [pc EXCEPT ![m] = "line6"]
    /\ UNCHANGED <<env, override, API_URL, default, observed>>

\* line 6: export default API_URL
ExportDefault(m) ==
    /\ pc[m] = "line6"
    /\ default' = [default EXCEPT ![m] = DefaultExpr(m)]
    /\ pc' = [pc EXCEPT ![m] = "evaluated"]
    /\ UNCHANGED <<env, override, API_URL, console, observed>>

\* a consumer module reads  import { API_URL } from './config'
ImportNamed(m) ==
    /\ ~Busy
    /\ pc[m] = "evaluated"
    /\ observed' = [observed EXCEPT ![m]["named"] = @ \cup {NamedExport(m)}]
    /\ UNCHANGED <<env, pc, override, API_URL, default, console>>

\* a consumer module reads  import API_URL from './config'
ImportDefault(m) ==
    /\ ~Busy
    /\ pc[m] = "evaluated"
    /\ observed' = [observed EXCEPT ![m]["default"] = @ \cup {DefaultExport(m)}]
    /\ UNCHANGED <<env, pc, override, API_URL, default, console>>

Next ==
    \/ \E v \in OverrideValues : SetEnv(v)
    \/ \E m \in Modules : ExportConst(m)
    \/ \E m \in Modules : ConsoleLog(m)
    \/ \E m \in Modules : ExportDefault(m)
    \/ \E m \in Modules : ImportNamed(m)
    \/ \E m \in Modules : ImportDefault(m)

Spec == Init /\ [][Next]_vars

TypeOK ==
    /\ env \in OverrideValues
    /\ pc \in [Modules -> {"unloaded", "line4", "line6", "evaluated", "errored"}]

\* the modules whose line 2 has completed normally
Resolved(m) == pc[m] \in {"line4", "line6", "evaluated"}

\* the override values the code treats as absent
Absent == {Undefined, Null, Str("")}

(* ------------------------------ claims -------------------------------- *)

\* C1: when the override read on line 2 of config.js is undefined, null or "",
\* API_URL is exactly the literal 'https://my-erp-backend-theta.vercel.app'.
C1_AbsentOverrideYieldsFallback ==
    (Resolved(Frontend) /\ override[Frontend] \in Absent)
        => API_URL[Frontend] = Str("https://my-erp-backend-theta.vercel.app")

C1_Witness ==
    /\ pc[Frontend] = "evaluated"
    /\ override[Frontend] = Str("")
    /\ API_URL[Frontend] = Str("https://my-erp-backend-theta.vercel.app")

\* C2: when the override is a non-empty string s (malformed, or with blanks
\* at either end, included), API_URL is exactly s.
C2_PresentOverridePassesThrough ==
    \A m \in Modules :
        (Resolved(m) /\ override[m].type = "string" /\ override[m].str # "")
            => /\ API_URL[m] = override[m]
               /\ API_URL[m].str = override[m].str

C2_Witness ==
    /\ pc[Frontend] = "evaluated"
    /\ override[Frontend] = Str(" x")
    /\ API_URL[Frontend] = Str(" x")
    /\ pc[Part000] = "evaluated"
    /\ override[Part000] = Str("not a url")
    /\ API_URL[Part000] = Str("not a url")

\* C3: once line 2 has completed, API_URL is a string and is not empty,
\* whatever the override was.
C3_ResolvedIsNonEmptyString ==
    \A m \in Modules :
        Resolved(m) => /\ API_URL[m].type = "string"
                       /\ Len(API_URL[m].str) > 0

C3_Witness ==
    /\ pc[Part000] = "evaluated"
    /\ override[Part000] = Null
    /\ pc[Frontend] = "evaluated"
    /\ override[Frontend] = Undefined

\* C4: API_URL is initialised once, on line 2, and never changes afterwards,
\* also when the environment entry changes later; every value a consumer has
\* read is the value resolved at load time, never an uninitialised binding.
C4_ReadersSeeLoadTimeValue ==
    \A m \in Modules :
        /\ pc[m] = "unloaded" =>
              /\ API_URL[m] = Uninitialized
              /\ \A k \in Kinds : observed[m][k] = {}
        /\ \A k \in Kinds : \A v \in observed[m][k] :
              /\ Resolved(m)
              /\ v # Uninitialized
              /\ v = API_URL[m]
              /\ v = IF override[m] \in Absent THEN Str(Fallback(m)) ELSE override[m]

C4_InitialisedOnce ==
    \A m \in Modules :
        /\ API_URL'[m] # API_URL[m] => (pc[m] = "unloaded" /\ pc'[m] = "line4")
        /\ pc[m] # "unloaded" => (override'[m] = override[m] /\ pc'[m] # "unloaded")

C4_ResolvedOnceAndImmutable ==
    /\ []C4_ReadersSeeLoadTimeValue
    /\ [][C4_InitialisedOnce]_vars

C4_Witness ==
    /\ pc[Frontend] = "evaluated"
    /\ override[Frontend] = Undefined
    /\ env = Str("https://staging.example.com")
    /\ observed[Frontend]["named"] # {}
    /\ observed[Frontend]["default"] # {}

\* C5: a module that has run line 4 has written exactly one line,
\* "API URL: " followed by the text of its API_URL; before line 4 it has written
\* none, and reads of the exports write none.
C5_OneLogLineWithResolvedValue ==
    \A m \in Modules :
        /\ pc[m] \in {"unloaded", "line4", "errored"} => console[m] = <<>>
        /\ pc[m] \in {"line6", "evaluated"} =>
              /\ Resolved(m)
              /\ console[m] = << "API URL: " \o API_URL[m].str >>
        /\ pc[m] = "evaluated" => console[m] = << "API URL: " \o default[m].str >>

C5_Witness ==
    /\ pc[Frontend] = "evaluated"
    /\ override[Frontend] = Undefined
    /\ observed[Frontend]["named"] # {}
    /\ observed[Frontend]["default"] # {}
    /\ console[Frontend] = << "API URL: https://my-erp-backend-theta.vercel.app" >>

\* C6: no module ends in an error: whatever the override read on line 2
\* (undefined, null, empty, well-formed or malformed), line 2 completes with
\* API_URL resolved.
C6_ResolutionNeverFails ==
    \A m \in Modules :
        /\ pc[m] # "errored"
        /\ override[m] # Uninitialized => (Resolved(m) /\ API_URL[m] # Uninitialized)

C6_Witness ==
    /\ pc[Frontend] = "evaluated"
    /\ override[Frontend] = Str("not a url")
    /\ pc[Part000] = "evaluated"
    /\ override[Part000] = Null

\* C7: the value line 2 stores is the one resolving again from the same
\* override and fallback gives, and the step of line 2 changes neither the
\* environment entry nor the console, the default export, what consumers
\* have read, or the other module.
C7_SameInputsSameResult ==
    \A m \in Modules :
        Resolved(m) =>
            API_URL[m] = (IF override[m] \in Absent THEN Str(Fallback(m)) ELSE override[m])

C7_ResolutionFrame ==
    \A m \in Modules :
        (pc[m] = "unloaded" /\ pc'[m] # "unloaded") =>
            /\ env' = env
            /\ override'[m] = env
            /\ console' = console
            /\ default' = default
            /\ observed' = observed
            /\ \A n \in Modules \ {m} :
                  /\ pc'[n] = pc[n]
                  /\ API_URL'[n] = API_URL[n]
                  /\ override'[n] = override[n]

C7_PureResolution ==
    /\ []C7_SameInputsSameResult
    /\ [][C7_ResolutionFrame]_vars

C7_Witness ==
    /\ pc[Frontend] = "line4"
    /\ override[Frontend] = Null
    /\ env = Null
    /\ console[Frontend] = <<>>
    /\ pc[Part000] = "evaluated"
    /\ override[Part000] = Null

\* C8: resolved from the same override, the two modules hold the same API_URL
\* and have logged the same line when the override is a non-empty string, and
\* hold the two different literals exactly when it is undefined, null or "".
C8_ModulesDifferOnlyInFallback ==
    (Resolved(Frontend) /\ Resolved(Part000) /\ override[Frontend] = override[Part000]) =>
        /\ override[Frontend] \notin Absent =>
              /\ API_URL[Frontend] = API_URL[Part000]
              /\ (pc[Frontend] = "evaluated" /\ pc[Part000] = "evaluated")
                    => console[Frontend] = console[Part000]
        /\ override[Frontend] \in Absent =>
              /\ API_URL[Frontend] = Str("https://my-erp-backend-theta.vercel.app")
              /\ API_URL[Part000] = Str("https://my-erp-frontend-delta.vercel.app")
        /\ (API_URL[Frontend] # API_URL[Part000]) <=> (override[Frontend] \in Absent)

C8_Witness ==
    /\ pc[Frontend] = "evaluated"
    /\ pc[Part000] = "evaluated"
    /\ override[Frontend] = Str("")
    /\ override[Part000] = Str("")
    /\ API_URL[Frontend] # API_URL[Part000]
    /\ console[Frontend] # console[Part000]

\* C9: in an evaluated module the default export equals the named export
\* API_URL, and any value read through one equals any value read through the
\* other.
C9_DefaultEqualsNamed ==
    \A m \in Modules :
        pc[m] = "evaluated" =>
            /\ default[m] = API_URL[m]
            /\ \A a \in observed[m]["named"] : \A b \in observed[m]["default"] : a = b

C9_Witness ==
    /\ pc[Part000] = "evaluated"
    /\ override[Part000] = Str("https://staging.example.com")
    /\ observed[Part000]["named"] = {Str("https://staging.example.com")}
    /\ observed[Part000]["default"] = {Str("https://staging.example.com")}

====
